---- MODULE Spec2Model ----
(***************************************************************************)
(* Model of telegram-bot/bot.py: the message composer                      *)
(* (format_analysis_message and the formatters it calls) and the update    *)
(* sequencer TokenAnalysisBot.handle_token_address, one step per await.    *)
(*                                                                         *)
(* A message text is modelled by its structure: which template it is and   *)
(* which blocks it contains (record Text below).  Two texts of one request *)
(* are equal as strings exactly when these records are equal.              *)
(***************************************************************************)
EXTENDS Integers, Sequences, FiniteSets

\* ------------------------------------------------------------------------
\* Configuration (bot.py:19-32)
\* ------------------------------------------------------------------------

STEP_DELAY == 3

PREDICTION_DELAY == 2

ANALYSIS_STEPS ==
    << "bundles", "devHistory", "topHolders", "chart",
       "freshWallets", "devSold", "lore", "socials" >>

\* len(ANALYSIS_STEPS), the catalog length N
NumSteps == Len(ANALYSIS_STEPS)

StepKeys == { ANALYSIS_STEPS[k] : k \in 1..NumSteps }

\* cells of the progress bar, bot.py:174-175
BAR_CELLS == 20

\* display_address keeps this many characters, bot.py:181
ADDR_SHOWN == 20

\* is_valid_solana_address length window, bot.py:230
ADDR_MIN == 32

ADDR_MAX == 44

\* ------------------------------------------------------------------------
\* Bounds of the model
\* ------------------------------------------------------------------------

\* number of request slots of the transport (requests dispatched at once)
NumReq == 2

\* a payload of the sequencer runs has at most this many catalog steps
\* present, or at most this many absent
MaxOdd == 1

\* edits per request the transport may reject as unchanged although the
\* text differs from the message's content
MaxSpurious == 1

Req == 1..NumReq

\* ------------------------------------------------------------------------
\* Strings as sequences of characters
\* ------------------------------------------------------------------------

Rep(n, c) == [k \in 1..n |-> c]

Base58 ==
    { "1","2","3","4","5","6","7","8","9",
      "A","B","C","D","E","F","G","H","J","K","L","M","N","P","Q","R","S",
      "T","U","V","W","X","Y","Z",
      "a","b","c","d","e","f","g","h","i","j","k","m","n","o","p","q","r",
      "s","t","u","v","w","x","y","z" }

Whitespace == { " ", "\n" }

RECURSIVE lstrip(_)
lstrip(s) ==
    IF s # <<>> /\ Head(s) \in Whitespace THEN lstrip(Tail(s)) ELSE s

RECURSIVE rstrip(_)
rstrip(s) ==
    IF s # <<>> /\ s[Len(s)] \in Whitespace
    THEN rstrip(SubSeq(s, 1, Len(s) - 1))
    ELSE s

\* str.strip()
strip(s) == rstrip(lstrip(s))

\* ------------------------------------------------------------------------
\* The analysis mapping of a payload.
\*   steps         catalog keys whose StepResult is present (truthy)
\*   predictions   'marketCapPredictions' present (truthy)
\*   probability   'overallProbability' is not None
\*   other         the mapping holds some other key (e.g. currentMarketCap)
\* ------------------------------------------------------------------------

Analysis(st, pr, pb, ot) ==
    [steps |-> st, predictions |-> pr, probability |-> pb, other |-> ot]

EmptyAnalysis == Analysis({}, FALSE, FALSE, FALSE)

\* every analysis mapping, up to the keys the code reads; "other" only
\* tells mappings apart when nothing else is in them
AllAnalyses ==
    { Analysis(st, pr, pb, FALSE) : st \in SUBSET StepKeys, pr \in BOOLEAN, pb \in BOOLEAN }
    \cup { Analysis({}, FALSE, FALSE, TRUE) }

\* Python truthiness of the mapping: `if analysis:`
Truthy(analysis) ==
    \/ analysis.steps # {}
    \/ analysis.predictions
    \/ analysis.probability
    \/ analysis.other

HasStep_Any(analysis, step_key) == TRUE

\* analysis.get(step_key) is truthy
HasStep(analysis, step_key) == step_key \in analysis.steps

\* ------------------------------------------------------------------------
\* Texts
\* ------------------------------------------------------------------------

Text(kind, addr, panels, progress, predictions, verdict, detail) ==
    [kind |-> kind, addr |-> addr, panels |-> panels, progress |-> progress,
     predictions |-> predictions, verdict |-> verdict, detail |-> detail]

Plain(kind, addr, detail) == Text(kind, addr, <<>>, <<>>, FALSE, FALSE, detail)

NoText == Plain("", <<>>, "")

\* format_progress_bar: <<filled cells, empty cells, percentage>>
format_progress_bar(current, total) ==
    LET percentage == (current * 100) \div total
        filled == (current * BAR_CELLS) \div total
    IN  << filled, BAR_CELLS - filled, percentage >>

\* format_analysis_step: the panel of a catalog step, "" for an unknown key
format_analysis_step(step_key) ==
    IF step_key \in StepKeys THEN step_key ELSE ""

\* `i < current_step`: catalog index k is below the reveal index
Revealed_OnlyLatest(k, current_step) == k = current_step - 1

Revealed_Inclusive(k, current_step) == k <= current_step

Revealed(k, current_step) == k < current_step

\* steps_completed of format_analysis_message, catalog indices k..N-1
RECURSIVE StepsCompleted(_, _, _)
StepsCompleted(analysis, current_step, k) ==
    IF k >= NumSteps THEN <<>>
    ELSE LET step_key == ANALYSIS_STEPS[k + 1]
             rest == StepsCompleted(analysis, current_step, k + 1)
         IN  IF HasStep(analysis, step_key) /\ Revealed(k, current_step)
             THEN << format_analysis_step(step_key) >> \o rest
             ELSE rest

\* the "Analyzing... (c/t)" line and the bar, when shown
ShowProgress(current_step, total_steps, show_complete) ==
    current_step < total_steps /\ ~show_complete

\* the predictions panel is appended
ShowPredictions_Always(analysis, current_step, total_steps, show_complete) ==
    analysis.predictions

ShowPredictions_OnlyComplete(analysis, current_step, total_steps, show_complete) ==
    show_complete /\ analysis.predictions

ShowPredictions(analysis, current_step, total_steps, show_complete) ==
    (current_step >= total_steps \/ show_complete) /\ analysis.predictions

ShowVerdict_NeedsPredictions(analysis, show_complete) ==
    show_complete /\ analysis.probability /\ analysis.predictions

\* the verdict panel is appended
ShowVerdict(analysis, show_complete) ==
    show_complete /\ analysis.probability

display_address(token_address) ==
    IF Len(token_address) > ADDR_SHOWN
    THEN SubSeq(token_address, 1, ADDR_SHOWN) \o << ".", ".", "." >>
    ELSE token_address

format_analysis_message(token_address, analysis, current_step, total_steps, show_complete) ==
    IF Truthy(analysis)
    THEN Text("analysis",
              display_address(token_address),
              StepsCompleted(analysis, current_step, 0),
              IF ShowProgress(current_step, total_steps, show_complete)
              THEN << current_step, total_steps >>
                   \o format_progress_bar(current_step, total_steps)
              ELSE <<>>,
              ShowPredictions(analysis, current_step, total_steps, show_complete),
              ShowVerdict(analysis, show_complete),
              "")
    ELSE Plain("analysis", display_address(token_address), "")

\* ------------------------------------------------------------------------
\* State
\* ------------------------------------------------------------------------

VARIABLES
    pc,               \* where each request's handle_token_address stands
    text_in,          \* update.message.text of each request
    token_address,    \* local token_address
    analysis,         \* local analysis (from the fetched payload)
    error_msg,        \* local error_msg of the non-success branch
    i,                \* loop variable of the step loop
    initial_message,  \* handle returned by the placeholder reply (0: none)
    exc,              \* exception in flight inside the try block
    raised,           \* the handler ended by an exception leaving it
    spurious,         \* unchanged-rejections of texts that did differ
    ops,              \* per request: what it asked of the transport, the
                      \* analysis service and the clock, in order
    messages,         \* transport: content of each message created so far
    c_in,             \* composer run: arguments of format_analysis_message
    c_out,            \* composer run: the text returned (NoText before)
    f_in,             \* formatter run: which formatter, and its argument
    f_out,            \* formatter run: what it returned
    f_done            \* formatter run: the formatter has returned

hvars == << pc, text_in, token_address, analysis, error_msg, i,
            initial_message, exc, raised, spurious, ops, messages >>

fvars == << f_in, f_out, f_done >>

cvars == << c_in, c_out, f_in, f_out, f_done >>

vars == << pc, text_in, token_address, analysis, error_msg, i,
           initial_message, exc, raised, spurious, ops, messages,
           c_in, c_out, f_in, f_out, f_done >>

\* a formatter argument: None, or a number; or a reason string
Value(none, num) == [none |-> none, num |-> num]

Call(fn, value, reason) == [fn |-> fn, value |-> value, reason |-> reason]

NoCall == Call("", Value(TRUE, 0), <<>>)

\* ------------------------------------------------------------------------
\* Exceptions
\* ------------------------------------------------------------------------

NoExc == [cls |-> "", msg |-> ""]

Exc(cls, msg) == [cls |-> cls, msg |-> msg]

\* the class and its bases, most derived first
Bases(cls) ==
    CASE cls = "Timeout" -> { "Timeout", "RequestException", "Exception" }
      [] cls = "ConnectionError" -> { "ConnectionError", "RequestException", "Exception" }
      [] cls = "JSONDecodeError" -> { "JSONDecodeError", "RequestException", "Exception" }
      [] cls = "ValueError" -> { "ValueError", "Exception" }
      [] cls = "TelegramError" -> { "TelegramError", "Exception" }
      [] OTHER -> { cls, "Exception" }

IsInstance(e, base) == base \in Bases(e.cls)

\* what response.json() raises on a body that is not JSON: a
\* RequestException subclass in requests >= 2.27, a ValueError before
JsonErrorClasses == { "JSONDecodeError", "ValueError" }

\* error texts of the transport that hold "message is not modified",
\* whatever the case of their letters
HoldsNotModified ==
    { "Message is not modified: specified new message content and reply markup are exactly the same" }

\* the exception an edit_text outcome raises
EditError(res) ==
    IF res = "not_modified"
    THEN Exc("TelegramError",
             "Message is not modified: specified new message content and reply markup are exactly the same")
    ELSE Exc("TelegramError", "Timed out")

\* `"message is not modified" not in str(e).lower()` is false: the
\* except clause of a reveal edit returns without raising
Swallowed_None(e) == FALSE

Swallowed_Any(e) == TRUE

Swallowed(e) == e.msg \in HoldsNotModified

\* ------------------------------------------------------------------------
\* is_valid_solana_address
\* ------------------------------------------------------------------------

is_valid_solana_address_LengthOnly(address) ==
    ~(address = <<>> \/ Len(address) < ADDR_MIN \/ Len(address) > ADDR_MAX)

is_valid_solana_address(address) ==
    IF address = <<>> \/ Len(address) < ADDR_MIN \/ Len(address) > ADDR_MAX
    THEN FALSE
    ELSE \A k \in 1..Len(address) : address[k] \in Base58

\* ------------------------------------------------------------------------
\* Transport and log
\* ------------------------------------------------------------------------

Op(op, site, h, text, step, complete, secs, res) ==
    [op |-> op, site |-> site, h |-> h, text |-> text, step |-> step,
     complete |-> complete, secs |-> secs, res |-> res]

Log(r, o) == ops' = [ops EXCEPT ![r] = Append(@, o)]

\* outcomes the transport may give an edit of message h to `text`
EditResults(r, h, text) ==
    { "error" }
    \cup (IF text = messages[h]
          THEN { "not_modified" }
          ELSE { "ok" } \cup (IF spurious[r] < MaxSpurious
                              THEN { "not_modified" } ELSE {}))

\* the edit lands on the newest message of the chat, not on the handle
edit_text_LastMessage(r, site, text, step, complete, res) ==
    LET h == Len(messages) IN
    /\ res \in EditResults(r, h, text)
    /\ Log(r, Op("edit", site, h, text, step, complete, 0, res))
    /\ messages' = IF res = "ok" THEN [messages EXCEPT ![h] = text] ELSE messages
    /\ spurious' = IF res = "not_modified" /\ text # messages[h]
                   THEN [spurious EXCEPT ![r] = @ + 1]
                   ELSE spurious

\* initial_message.edit_text(text): the call is logged, the message
\* changes when the transport accepts it
edit_text(r, site, text, step, complete, res) ==
    LET h == initial_message[r] IN
    /\ res \in EditResults(r, h, text)
    /\ Log(r, Op("edit", site, h, text, step, complete, 0, res))
    /\ messages' = IF res = "ok" THEN [messages EXCEPT ![h] = text] ELSE messages
    /\ spurious' = IF res = "not_modified" /\ text # messages[h]
                   THEN [spurious EXCEPT ![r] = @ + 1]
                   ELSE spurious

\* the edit of a reveal step returned, or its error was swallowed
Passed(res) == res = "ok" \/ Swallowed(EditError(res))

\* raise e inside the try block
Raise(r, e) ==
    /\ exc' = [exc EXCEPT ![r] = e]
    /\ pc' = [pc EXCEPT ![r] = "except"]

Goto(r, l) == pc' = [pc EXCEPT ![r] = l] /\ UNCHANGED exc

\* ------------------------------------------------------------------------
\* Texts of handle_token_address
\* ------------------------------------------------------------------------

InvalidText == Plain("invalid_address", <<>>, "")

ConnectingText_Overview(addr) ==
    format_analysis_message(addr, EmptyAnalysis, 0, NumSteps, FALSE)

ConnectingText(addr) == Plain("connecting", addr, "")

FailedText(msg) == Plain("analysis_failed", <<>>, msg)

TimeoutText == Plain("timeout", <<>>, "")

NetworkText(msg) == Plain("network_error", <<>>, msg)

UnexpectedText(msg) == Plain("unexpected_error", <<>>, msg)

\* ------------------------------------------------------------------------
\* Inputs of the sequencer runs
\* ------------------------------------------------------------------------

Inputs ==
    { <<>>,
      Rep(ADDR_MIN - 1, "a"),
      << " " >> \o Rep(ADDR_MAX, "z") \o << "\n" >>,
      Rep(ADDR_MAX + 1, "a"),
      Rep(ADDR_MIN, "0"),
      Rep(ADDR_MIN, "a") \o << "l" >>,
      Rep(ADDR_SHOWN, "a") \o << " " >> \o Rep(ADDR_SHOWN, "a"),
      << " ", " " >> }

\* the analysis mappings of the sequencer runs
SeqAnalyses ==
    { a \in AllAnalyses :
        \/ Cardinality(a.steps) <= MaxOdd
        \/ Cardinality(a.steps) >= NumSteps - MaxOdd }

\* the analysis mappings of the runs with several requests in flight
ConcAnalyses ==
    { Analysis({ "socials" }, TRUE, TRUE, FALSE),
      Analysis({ "bundles" }, FALSE, FALSE, FALSE) }

\* the analysis mappings the service answers with in a run
ServiceAnalyses ==
    IF \E r \in Req : r # 1 /\ pc[r] # "unused"
    THEN ConcAnalyses
    ELSE SeqAnalyses

\* what requests.post and the reading of the response come to
FetchOutcomes ==
    { [kind |-> "timeout", ok |-> FALSE, body |-> "", analysis |-> EmptyAnalysis],
      [kind |-> "connection", ok |-> FALSE, body |-> "", analysis |-> EmptyAnalysis] }
    \cup { [kind |-> "response", ok |-> FALSE, body |-> b, analysis |-> EmptyAnalysis] :
             b \in { "empty", "json_message", "json_no_message", "not_json" } }
    \cup { [kind |-> "response", ok |-> TRUE, body |-> "not_json", analysis |-> EmptyAnalysis] }
    \cup { [kind |-> "response", ok |-> TRUE, body |-> "json", analysis |-> a] :
             a \in ServiceAnalyses }

\* ------------------------------------------------------------------------
\* handle_token_address, one action per suspension point
\* ------------------------------------------------------------------------

\* the handler is over: it returned, or an exception left it
Finish(r, escaped) ==
    /\ pc' = [pc EXCEPT ![r] = "done"]
    /\ raised' = [raised EXCEPT ![r] = escaped]
    /\ UNCHANGED exc

\* update.message.reply_text(text): a new message on success
reply_text(r, site, text, res) ==
    /\ res \in { "ok", "error" }
    /\ Log(r, Op("reply", site, IF res = "ok" THEN Len(messages) + 1 ELSE 0,
                 text, -1, FALSE, 0, res))
    /\ messages' = IF res = "ok" THEN Append(messages, text) ELSE messages

\* lines 265-275: the address is rejected
RejectAddress(r) ==
    /\ pc[r] = "start"
    /\ ~is_valid_solana_address(strip(text_in[r]))
    /\ token_address' = [token_address EXCEPT ![r] = strip(text_in[r])]
    /\ \E res \in { "ok", "error" } :
         /\ reply_text(r, "invalid", InvalidText, res)
         /\ Finish(r, res # "ok")
    /\ UNCHANGED << text_in, analysis, error_msg, i, initial_message, spurious >>
    /\ UNCHANGED cvars

\* lines 265-283: the placeholder message is created
SendInitial(r) ==
    /\ pc[r] = "start"
    /\ is_valid_solana_address(strip(text_in[r]))
    /\ token_address' = [token_address EXCEPT ![r] = strip(text_in[r])]
    /\ \E res \in { "ok", "error" } :
         /\ reply_text(r, "placeholder", ConnectingText(strip(text_in[r])), res)
         /\ IF res = "ok"
            THEN /\ initial_message' = [initial_message EXCEPT ![r] = Len(messages) + 1]
                 /\ Goto(r, "fetch")
                 /\ UNCHANGED raised
            ELSE /\ Finish(r, TRUE)
                 /\ UNCHANGED initial_message
    /\ UNCHANGED << text_in, analysis, error_msg, i, spurious >>
    /\ UNCHANGED cvars

\* how the log names an outcome of the fetch
Outcome(out) ==
    IF out.kind = "response"
    THEN (IF out.ok THEN "ok_" ELSE "status_") \o out.body
    ELSE out.kind

\* lines 287-308: requests.post and the reading of the response
Fetch(r) ==
    /\ pc[r] = "fetch"
    /\ \E out \in FetchOutcomes :
         /\ Log(r, Op("fetch", "fetch", 0, NoText, -1, FALSE, 0, Outcome(out)))
         /\ CASE out.kind = "timeout" ->
                   /\ Raise(r, Exc("Timeout", "Read timed out"))
                   /\ UNCHANGED << analysis, error_msg >>
              [] out.kind = "connection" ->
                   /\ Raise(r, Exc("ConnectionError", "Connection refused"))
                   /\ UNCHANGED << analysis, error_msg >>
              [] out.kind = "response" /\ out.body = "not_json" ->
                   /\ \E cls \in JsonErrorClasses : Raise(r, Exc(cls, "Expecting value"))
                   /\ UNCHANGED << analysis, error_msg >>
              [] out.kind = "response" /\ ~out.ok /\ out.body # "not_json" ->
                   /\ error_msg' = [error_msg EXCEPT ![r] =
                                      IF out.body = "json_message"
                                      THEN "Token not found"
                                      ELSE "Analysis failed"]
                   /\ Goto(r, "report_failed")
                   /\ UNCHANGED analysis
              [] out.kind = "response" /\ out.ok /\ out.body = "json" ->
                   /\ analysis' = [analysis EXCEPT ![r] = out.analysis]
                   /\ Goto(r, "show_overview")
                   /\ UNCHANGED error_msg
    /\ UNCHANGED << text_in, token_address, i, initial_message, raised,
                    spurious, messages >>
    /\ UNCHANGED cvars

\* lines 297-303: the non-success report, inside the try block
ReportFailed(r) ==
    /\ pc[r] = "report_failed"
    /\ \E res \in { "ok", "not_modified", "error" } :
         /\ edit_text(r, "failed", FailedText(error_msg[r]), -1, FALSE, res)
         /\ IF res = "ok"
            THEN Finish(r, FALSE)
            ELSE Raise(r, EditError(res)) /\ UNCHANGED raised
    /\ UNCHANGED << text_in, token_address, analysis, error_msg, i, initial_message >>
    /\ UNCHANGED cvars

AfterLoop_VerdictFirst(r) ==
    IF analysis[r].probability THEN "verdict_sleep"
    ELSE IF analysis[r].predictions THEN "pred_sleep"
    ELSE "done"

\* what follows the step loop: lines 340 and 353
AfterLoop(r) ==
    IF analysis[r].predictions THEN "pred_sleep"
    ELSE IF analysis[r].probability THEN "verdict_sleep"
    ELSE "done"

\* the for statement takes its next item, or the loop is over
NextTick_Stuck(r) == Goto(r, "sleep") /\ UNCHANGED i

NextTick(r) ==
    IF i[r] < NumSteps
    THEN i' = [i EXCEPT ![r] = @ + 1] /\ Goto(r, "sleep")
    ELSE UNCHANGED i /\ Goto(r, AfterLoop(r))

\* a reveal edit: the composed text is sent; an unchanged-content error is
\* swallowed, any other is raised again
RevealEdit(r, site, step, complete, res) ==
    edit_text(r, site,
              format_analysis_message(token_address[r], analysis[r], step,
                                      Len(ANALYSIS_STEPS), complete),
              step, complete, res)

\* lines 311-319: the overview, reveal index 0
ShowOverview(r) ==
    /\ pc[r] = "show_overview"
    /\ \E res \in { "ok", "not_modified", "error" } :
         /\ RevealEdit(r, "index0", 0, FALSE, res)
         /\ IF Passed(res)
            THEN i' = [i EXCEPT ![r] = 1] /\ Goto(r, "sleep")
            ELSE Raise(r, EditError(res)) /\ UNCHANGED i
    /\ UNCHANGED << text_in, token_address, analysis, error_msg, initial_message, raised >>
    /\ UNCHANGED cvars

\* lines 323-328: the inter-step delay, then the look-up of step i-1
StepSleep(r) ==
    /\ pc[r] = "sleep"
    /\ Log(r, Op("sleep", "step", 0, NoText, -1, FALSE, STEP_DELAY, ""))
    /\ IF HasStep(analysis[r], ANALYSIS_STEPS[i[r]])
       THEN Goto(r, "step_edit") /\ UNCHANGED i
       ELSE NextTick(r)
    /\ UNCHANGED << text_in, token_address, analysis, error_msg, initial_message,
                    raised, spurious, messages >>
    /\ UNCHANGED cvars

\* lines 329-337: the edit of tick i
StepEdit(r) ==
    /\ pc[r] = "step_edit"
    /\ \E res \in { "ok", "not_modified", "error" } :
         /\ RevealEdit(r, "step", i[r], FALSE, res)
         /\ IF Passed(res)
            THEN NextTick(r)
            ELSE Raise(r, EditError(res)) /\ UNCHANGED i
    /\ UNCHANGED << text_in, token_address, analysis, error_msg, initial_message, raised >>
    /\ UNCHANGED cvars

\* line 341
PredSleep(r) ==
    /\ pc[r] = "pred_sleep"
    /\ Log(r, Op("sleep", "predictions", 0, NoText, -1, FALSE, STEP_DELAY, ""))
    /\ Goto(r, "pred_edit")
    /\ UNCHANGED << text_in, token_address, analysis, error_msg, i, initial_message,
                    raised, spurious, messages >>
    /\ UNCHANGED cvars

\* lines 342-353
PredEdit(r) ==
    /\ pc[r] = "pred_edit"
    /\ \E res \in { "ok", "not_modified", "error" } :
         /\ RevealEdit(r, "predictions", Len(ANALYSIS_STEPS), FALSE, res)
         /\ IF Passed(res)
            THEN Goto(r, IF analysis[r].probability THEN "verdict_sleep" ELSE "done")
            ELSE Raise(r, EditError(res))
    /\ UNCHANGED << text_in, token_address, analysis, error_msg, i, initial_message, raised >>
    /\ UNCHANGED cvars

\* line 354
VerdictSleep(r) ==
    /\ pc[r] = "verdict_sleep"
    /\ Log(r, Op("sleep", "verdict", 0, NoText, -1, FALSE, PREDICTION_DELAY, ""))
    /\ Goto(r, "verdict_edit")
    /\ UNCHANGED << text_in, token_address, analysis, error_msg, i, initial_message,
                    raised, spurious, messages >>
    /\ UNCHANGED cvars

\* lines 355-363
VerdictEdit(r) ==
    /\ pc[r] = "verdict_edit"
    /\ \E res \in { "ok", "not_modified", "error" } :
         /\ RevealEdit(r, "verdict", Len(ANALYSIS_STEPS), TRUE, res)
         /\ IF Passed(res)
            THEN Goto(r, "done")
            ELSE Raise(r, EditError(res))
    /\ UNCHANGED << text_in, token_address, analysis, error_msg, i, initial_message, raised >>
    /\ UNCHANGED cvars

\* an except clause: its single edit; an error of that edit leaves the handler
Report(r, site, text) ==
    /\ \E res \in { "ok", "not_modified", "error" } :
         /\ edit_text(r, site, text, -1, FALSE, res)
         /\ pc' = [pc EXCEPT ![r] = "done"]
         /\ raised' = [raised EXCEPT ![r] = res # "ok"]
    /\ exc' = [exc EXCEPT ![r] = NoExc]
    /\ UNCHANGED << text_in, token_address, analysis, error_msg, i, initial_message >>
    /\ UNCHANGED cvars

\* lines 365-370
ExceptTimeout(r) ==
    /\ pc[r] = "except"
    /\ IsInstance(exc[r], "Timeout")
    /\ Report(r, "timeout", TimeoutText)

\* lines 371-378
ExceptRequestException(r) ==
    /\ pc[r] = "except"
    /\ ~IsInstance(exc[r], "Timeout")
    /\ IsInstance(exc[r], "RequestException")
    /\ Report(r, "network", NetworkText(exc[r].msg))

\* lines 379-385
ExceptException(r) ==
    /\ pc[r] = "except"
    /\ ~IsInstance(exc[r], "Timeout")
    /\ ~IsInstance(exc[r], "RequestException")
    /\ IsInstance(exc[r], "Exception")
    /\ Report(r, "unexpected", UnexpectedText(exc[r].msg))

\* ------------------------------------------------------------------------
\* The sequencer runs: one request, any input, any payload, any transport
\* ------------------------------------------------------------------------

Init ==
    /\ pc = [r \in Req |-> IF r = 1 THEN "start" ELSE "unused"]
    /\ \E t \in Inputs : text_in = [r \in Req |-> IF r = 1 THEN t ELSE <<>>]
    /\ token_address = [r \in Req |-> <<>>]
    /\ analysis = [r \in Req |-> EmptyAnalysis]
    /\ error_msg = [r \in Req |-> ""]
    /\ i = [r \in Req |-> 0]
    /\ initial_message = [r \in Req |-> 0]
    /\ exc = [r \in Req |-> NoExc]
    /\ raised = [r \in Req |-> FALSE]
    /\ spurious = [r \in Req |-> 0]
    /\ ops = [r \in Req |-> <<>>]
    /\ messages = <<>>
    /\ c_in = [token_address |-> <<>>, analysis |-> EmptyAnalysis,
               current_step |-> 0, show_complete |-> FALSE]
    /\ c_out = NoText
    /\ f_in = NoCall
    /\ f_out = <<>>
    /\ f_done = FALSE

Next ==
    \E r \in Req :
        \/ RejectAddress(r)
        \/ SendInitial(r)
        \/ Fetch(r)
        \/ ReportFailed(r)
        \/ ShowOverview(r)
        \/ StepSleep(r)
        \/ StepEdit(r)
        \/ PredSleep(r)
        \/ PredEdit(r)
        \/ VerdictSleep(r)
        \/ VerdictEdit(r)
        \/ ExceptTimeout(r)
        \/ ExceptRequestException(r)
        \/ ExceptException(r)

Spec == Init /\ [][Next]_vars

\* ------------------------------------------------------------------------
\* The concurrent runs: two requests dispatched at once, their steps
\* interleaved in any order
\* ------------------------------------------------------------------------

ConcInputs ==
    [r \in Req |->
        IF r = 1 THEN { << " " >> \o Rep(ADDR_MAX, "z") \o << "\n" >> }
        ELSE IF r = 2 THEN { Rep(ADDR_MIN, "1"), Rep(ADDR_MIN, "0") }
        ELSE { <<>> }]

InitConc ==
    /\ pc = [r \in Req |-> IF r <= 2 THEN "start" ELSE "unused"]
    /\ text_in \in [Req -> UNION { ConcInputs[r] : r \in Req }]
    /\ \A r \in Req : text_in[r] \in ConcInputs[r]
    /\ token_address = [r \in Req |-> <<>>]
    /\ analysis = [r \in Req |-> EmptyAnalysis]
    /\ error_msg = [r \in Req |-> ""]
    /\ i = [r \in Req |-> 0]
    /\ initial_message = [r \in Req |-> 0]
    /\ exc = [r \in Req |-> NoExc]
    /\ raised = [r \in Req |-> FALSE]
    /\ spurious = [r \in Req |-> 0]
    /\ ops = [r \in Req |-> <<>>]
    /\ messages = <<>>
    /\ c_in = [token_address |-> <<>>, analysis |-> EmptyAnalysis,
               current_step |-> 0, show_complete |-> FALSE]
    /\ c_out = NoText
    /\ f_in = NoCall
    /\ f_out = <<>>
    /\ f_done = FALSE

SpecConc == InitConc /\ [][Next]_vars

\* ------------------------------------------------------------------------
\* The composer runs: format_analysis_message applied once to any
\* arguments; no request is in flight
\* ------------------------------------------------------------------------

ComposerAddresses == { Rep(ADDR_SHOWN, "a"), Rep(ADDR_MIN, "1") }

ComposerInputs ==
    [token_address : ComposerAddresses, analysis : AllAnalyses,
     current_step : 0..NumSteps, show_complete : BOOLEAN]

InitCompose ==
    /\ pc = [r \in Req |-> "unused"]
    /\ text_in = [r \in Req |-> <<>>]
    /\ token_address = [r \in Req |-> <<>>]
    /\ analysis = [r \in Req |-> EmptyAnalysis]
    /\ error_msg = [r \in Req |-> ""]
    /\ i = [r \in Req |-> 0]
    /\ initial_message = [r \in Req |-> 0]
    /\ exc = [r \in Req |-> NoExc]
    /\ raised = [r \in Req |-> FALSE]
    /\ spurious = [r \in Req |-> 0]
    /\ ops = [r \in Req |-> <<>>]
    /\ messages = <<>>
    /\ c_in \in ComposerInputs
    /\ c_out = NoText
    /\ f_in = NoCall
    /\ f_out = <<>>
    /\ f_done = FALSE

Compose ==
    /\ c_out = NoText
    /\ c_out' = format_analysis_message(c_in.token_address, c_in.analysis,
                                        c_in.current_step, Len(ANALYSIS_STEPS),
                                        c_in.show_complete)
    /\ UNCHANGED c_in
    /\ UNCHANGED fvars
    /\ UNCHANGED hvars

NextCompose == Compose

SpecCompose == InitCompose /\ [][NextCompose]_vars

\* ------------------------------------------------------------------------
\* Vocabulary of the properties
\* ------------------------------------------------------------------------

Range(s) == { s[k] : k \in 1..Len(s) }

\* position of a key in the catalog, 0-based
CatalogIndex(key) == CHOOSE k \in 0..(NumSteps - 1) : ANALYSIS_STEPS[k + 1] = key

RevealSites == { "index0", "step", "predictions", "verdict" }

ReportSites == { "invalid", "failed", "timeout", "network", "unexpected" }

Active == { r \in Req : pc[r] # "unused" }

\* positions of ops[r] that handed a text to the transport
Handed(r) == { k \in 1..Len(ops[r]) : ops[r][k].op \in { "reply", "edit" } }

\* positions of ops[r] whose text format_analysis_message composed
Composed(r) == { k \in 1..Len(ops[r]) : ops[r][k].site \in RevealSites /\ ops[r][k].op = "edit" }

\* the composer has run
Composed1 == c_out # NoText

\* ------------------------------------------------------------------------
\* C1.  Every text handed to the transport that contains the predictions
\* panel or the verdict panel was composed by format_analysis_message with
\* reveal index N; no text composed with a reveal index below N contains
\* either panel.
\* ------------------------------------------------------------------------
C1_PanelsOnlyAtCatalogLength ==
    \A r \in Active : \A k \in Handed(r) :
        LET o == ops[r][k] IN
        /\ (o.text.predictions \/ o.text.verdict)
              => (k \in Composed(r) /\ o.step = NumSteps)
        /\ (k \in Composed(r) /\ o.step < NumSteps)
              => (~o.text.predictions /\ ~o.text.verdict)

\* a verdict edit carrying both panels was handed over after step edits
C1_Witness ==
    \E k \in Handed(1) :
        /\ ops[1][k].text.predictions /\ ops[1][k].text.verdict
        /\ \E j \in Composed(1) : j < k /\ ops[1][j].step \in 1..(NumSteps - 1)

\* ------------------------------------------------------------------------
\* C7.  Reveal monotonicity: for a fixed payload and reveal indices
\* i < j <= N the step panels of the message composed at i are among those
\* of the message composed at j.
\* ------------------------------------------------------------------------
C7_RevealMonotone ==
    Composed1 =>
        \A j \in (c_in.current_step + 1)..NumSteps :
            Range(c_out.panels)
                \subseteq Range(format_analysis_message(
                                   c_in.token_address, c_in.analysis, j,
                                   Len(ANALYSIS_STEPS), c_in.show_complete).panels)

\* a message with panels, composed before a later present step is revealed
C7_Witness ==
    /\ Composed1
    /\ Len(c_out.panels) >= 2
    /\ \E key \in c_in.analysis.steps : CatalogIndex(key) > c_in.current_step

\* ------------------------------------------------------------------------
\* C8.  For every payload and reveal index r in 0..N the step panels are
\* exactly the catalog steps of index < r present in the payload, in
\* catalog order, each once.  With r = 3 of 8 and only steps 0,1,2 present:
\* those three panels and a progress line 3/8, 7 of 20 cells filled, 37%.
\* ------------------------------------------------------------------------
C8_PanelsExactlyRevealedPresent ==
    Composed1 =>
        LET p == c_out.panels
            want == { key \in c_in.analysis.steps :
                        CatalogIndex(key) < c_in.current_step }
        IN  /\ Range(p) = want
            /\ Len(p) = Cardinality(want)
            /\ \A a, b \in 1..Len(p) :
                   a < b => CatalogIndex(p[a]) < CatalogIndex(p[b])
            /\ ( /\ c_in.current_step = 3
                 /\ c_in.analysis.steps = { "bundles", "devHistory", "topHolders" }
                 /\ ~c_in.show_complete )
               => ( /\ p = << "bundles", "devHistory", "topHolders" >>
                    /\ c_out.progress = << 3, 8, 7, 13, 37 >> )

\* the scenario of the claim, with a later step present but withheld
C8_Witness ==
    /\ Composed1
    /\ c_in.current_step = 3
    /\ ~c_in.show_complete
    /\ c_in.analysis.steps = { "bundles", "devHistory", "topHolders", "lore" }
    /\ c_out.panels = << "bundles", "devHistory", "topHolders" >>

\* ------------------------------------------------------------------------
\* The reveal sequence a request issues when every edit is accepted
\* ------------------------------------------------------------------------

Sans(o) == [o EXCEPT !.res = ""]

SansAll(s) == [k \in 1..Len(s) |-> Sans(s[k])]

IsPrefix(s, t) == Len(s) <= Len(t) /\ s = SubSeq(t, 1, Len(s))

EditOf(r, site, step, complete) ==
    Op("edit", site, initial_message[r],
       format_analysis_message(token_address[r], analysis[r], step, NumSteps, complete),
       step, complete, 0, "")

SleepOf(site, secs) == Op("sleep", site, 0, NoText, -1, FALSE, secs, "")

RECURSIVE Ticks(_, _)
Ticks(r, k) ==
    IF k > NumSteps THEN <<>>
    ELSE << SleepOf("step", STEP_DELAY) >>
         \o (IF ANALYSIS_STEPS[k] \in analysis[r].steps
             THEN << EditOf(r, "step", k, FALSE) >> ELSE <<>>)
         \o Ticks(r, k + 1)

ExpectedReveal(r) ==
    << EditOf(r, "index0", 0, FALSE) >>
    \o Ticks(r, 1)
    \o (IF analysis[r].predictions
        THEN << SleepOf("predictions", STEP_DELAY), EditOf(r, "predictions", NumSteps, FALSE) >>
        ELSE <<>>)
    \o (IF analysis[r].probability
        THEN << SleepOf("verdict", PREDICTION_DELAY), EditOf(r, "verdict", NumSteps, TRUE) >>
        ELSE <<>>)

\* the request got a payload: its log is reply, fetch, then the reveal part
Fetched(r) == Len(ops[r]) >= 2 /\ ops[r][2].op = "fetch" /\ ops[r][2].res = "ok_json"

RevealLog(r) == SubSeq(ops[r], 3, Len(ops[r]))

\* positions of reveal edits that failed with the unchanged-content error
Benign(r) == { k \in Composed(r) : ops[r][k].res = "not_modified" }

\* positions of reveal edits that failed with another transport error
Fatal(r) == { k \in Composed(r) : ops[r][k].res = "error" }

Reports(r) == { k \in Handed(r) : ops[r][k].site \in ReportSites }

\* ------------------------------------------------------------------------
\* C2.  A reveal edit (index 0, step, predictions, verdict) that fails with
\* "message is not modified" reports no error and the sequencer goes on as
\* if the edit had succeeded: as long as no reveal edit failed otherwise,
\* the delays and edits issued are those of the all-accepted run, with the
\* same texts, and the request ends having issued all of them.
\* ------------------------------------------------------------------------
C2_UnchangedIsSwallowed ==
    \A r \in Active :
        (Fetched(r) /\ Fatal(r) = {}) =>
            /\ Reports(r) = {}
            /\ pc[r] # "except" /\ ~raised[r]
            /\ IsPrefix(SansAll(RevealLog(r)), ExpectedReveal(r))
            /\ pc[r] = "done" => SansAll(RevealLog(r)) = ExpectedReveal(r)

\* a finished request whose step edit was rejected as unchanged and whose
\* predictions edit was rejected as unchanged too
C2_Witness ==
    /\ pc[1] = "done"
    /\ \E k \in Benign(1) : ops[1][k].site = "step"
    /\ \E k \in Benign(1) : ops[1][k].site = "predictions"
    /\ \E k \in Composed(1) : ops[1][k].site = "verdict" /\ ops[1][k].res = "ok"

\* ------------------------------------------------------------------------
\* C3.  A reveal edit that fails with a transport error other than
\* unchanged-content ends the sequence there: nothing of the reveal
\* sequence follows it, and the one operation that follows is the
\* unexpected-error report.
\* ------------------------------------------------------------------------
C3_FatalEditEscalates ==
    \A r \in Active : \A k \in Fatal(r) :
        \/ /\ k = Len(ops[r])
           /\ pc[r] = "except"
           /\ exc[r].cls = "TelegramError"
        \/ /\ Len(ops[r]) = k + 1
           /\ ops[r][k + 1].op = "edit"
           /\ ops[r][k + 1].text = UnexpectedText("Timed out")
           /\ pc[r] = "done"

\* a step edit failed after an earlier one had passed, and the report went out
C3_Witness ==
    /\ pc[1] = "done"
    /\ \E k \in Fatal(1) :
          /\ ops[1][k].site = "step" /\ ops[1][k].step >= 2
          /\ ops[1][k + 1].site = "unexpected" /\ ops[1][k + 1].res = "ok"

FetchFailures ==
    { "timeout", "connection", "status_empty", "status_json_message",
      "status_json_no_message", "status_not_json" }

OwnMessage(outcome) ==
    CASE outcome = "timeout" -> TimeoutText
      [] outcome = "connection" -> NetworkText("Connection refused")
      [] outcome = "status_json_message" -> FailedText("Token not found")
      [] OTHER -> FailedText("Analysis failed")

\* ------------------------------------------------------------------------
\* C4.  When the fetch fails (timeout, network error, non-success
\* response) the request reports the failure kind's own message (timeout;
\* network error with the detail; the server's message or 'Analysis
\* failed') and no text of format_analysis_message is ever delivered.
\* ------------------------------------------------------------------------
C4_FetchFailureOwnMessage ==
    \A r \in Active :
        (Len(ops[r]) >= 2 /\ ops[r][2].res \in FetchFailures) =>
            /\ Composed(r) = {}
            /\ Len(ops[r]) >= 3 =>
                  /\ ops[r][3].op = "edit"
                  /\ ops[r][3].text = OwnMessage(ops[r][2].res)

Failed(r) ==
    \/ Len(ops[r]) >= 2 /\ ops[r][2].res # "ok_json"
    \/ Fatal(r) # {}

\* ------------------------------------------------------------------------
\* C5.  Every failure is terminal and reported once: a request issues at
\* most one failure report, exactly one once it ended after a fetch
\* failure, a non-success response or a fatal edit failure; it fetches at
\* most once, and nothing follows its failure report.
\* ------------------------------------------------------------------------
C5_SingleTerminalReport ==
    \A r \in Active :
        /\ Cardinality(Reports(r)) <= 1
        /\ \A k \in Reports(r) : k = Len(ops[r])
        /\ Cardinality({ k \in 1..Len(ops[r]) : ops[r][k].op = "fetch" }) <= 1
        /\ (pc[r] = "done" /\ Failed(r)) => Cardinality(Reports(r)) = 1

Malformed(address) ==
    \/ Len(address) \notin ADDR_MIN..ADDR_MAX
    \/ \E k \in 1..Len(address) : address[k] \notin Base58

\* ------------------------------------------------------------------------
\* C6.  When the inbound identifier fails is_valid_solana_address the
\* invalid-address message is the request's only transport operation: no
\* placeholder is created, nothing is fetched, nothing is edited.
\* ------------------------------------------------------------------------
C6_InvalidAddressOnlyReply ==
    \A r \in Active :
        Malformed(strip(text_in[r])) =>
            \/ pc[r] = "start" /\ ops[r] = <<>>
            \/ /\ pc[r] = "done"
               /\ Len(ops[r]) = 1
               /\ ops[r][1].op = "reply"
               /\ ops[r][1].text = InvalidText
               /\ initial_message[r] = 0

\* an address of the right length with a character outside base58 was answered
C6_Witness ==
    /\ pc[1] = "done"
    /\ Len(strip(text_in[1])) \in ADDR_MIN..ADDR_MAX
    /\ Malformed(strip(text_in[1]))
    /\ Len(ops[1]) = 1 /\ ops[1][1].res = "ok"

TicksBefore(r, k) ==
    Cardinality({ j \in 1..(k - 1) : ops[r][j].op = "sleep" /\ ops[r][j].site = "step" })

\* ------------------------------------------------------------------------
\* C9.  The reveal index of one request starts at 0, every reveal index
\* passed to format_analysis_message lies in 0..N, the indices of
\* successive composed messages never decrease, and the index advances
\* once per tick: the edit of a tick carries the number of that tick.
\* ------------------------------------------------------------------------
C9_RevealIndex ==
    \A r \in Active :
        /\ i[r] \in 0..NumSteps
        /\ \A k \in Composed(r) :
              /\ ops[r][k].step \in 0..NumSteps
              /\ (\A j \in Composed(r) : j >= k) => ops[r][k].step = 0
              /\ \A j \in Composed(r) : j < k => ops[r][j].step <= ops[r][k].step
              /\ ops[r][k].site = "step" => ops[r][k].step = TicksBefore(r, k)

\* the last tick's edit was issued after ticks that issued none
C9_Witness ==
    \E k \in Composed(1) :
        /\ ops[1][k].site = "step" /\ ops[1][k].step = NumSteps
        /\ Cardinality({ j \in Composed(1) : j < k }) = 1

Rank(r) ==
    CASE pc[r] = "start" -> 2 * NumSteps + 9
      [] pc[r] = "fetch" -> 2 * NumSteps + 8
      [] pc[r] = "show_overview" -> 2 * NumSteps + 7
      [] pc[r] = "sleep" -> 2 * (NumSteps - i[r]) + 7
      [] pc[r] = "step_edit" -> 2 * (NumSteps - i[r]) + 6
      [] pc[r] = "pred_sleep" -> 5
      [] pc[r] = "pred_edit" -> 4
      [] pc[r] = "verdict_sleep" -> 3
      [] pc[r] = "verdict_edit" -> 2
      [] pc[r] = "report_failed" -> 2
      [] pc[r] = "except" -> 1
      [] OTHER -> 0

Ended(r) == pc[r] \in { "done", "unused" }

\* ------------------------------------------------------------------------
\* C10.  Every request terminates: when every fetch, send, edit and delay
\* returns, the handler reaches its end for every payload and every
\* pattern of benign or fatal edit failures (each of its steps lowers a
\* rank bounded by 2N + 9), and once it has ended it issues nothing more
\* and its message is not edited again.
\* ------------------------------------------------------------------------
C10_Terminates ==
    /\ <>(\A r \in Req : Ended(r))
    /\ [][\A r \in Req :
            /\ (pc'[r] # pc[r] \/ ops'[r] # ops[r] \/ i'[r] # i[r])
                  => Rank(r)' < Rank(r)
            /\ Ended(r) =>
                  /\ Ended(r)' /\ ops'[r] = ops[r]
                  /\ initial_message[r] > 0 =>
                        messages'[initial_message[r]] = messages[initial_message[r]]
         ]_vars

\* the handler ended after a benign and then a fatal edit failure, the
\* report of which failed too
C10_Witness ==
    /\ pc[1] = "done" /\ raised[1]
    /\ Benign(1) # {} /\ Fatal(1) # {}
    /\ ops[1][Len(ops[1])].site = "unexpected"

\* the request runs on: each awaited call returns
FairSpec == Init /\ [][Next]_vars /\ WF_vars(Next)

\* the text the transport last accepted from request r, NoText when none
RECURSIVE LastAccepted(_, _)
LastAccepted(r, k) ==
    IF k = 0 THEN NoText
    ELSE IF ops[r][k].op \in { "reply", "edit" } /\ ops[r][k].res = "ok"
         THEN ops[r][k].text
         ELSE LastAccepted(r, k - 1)

\* ------------------------------------------------------------------------
\* C11.  Requests dispatched at once are independent: each request edits
\* only the message handle its own placeholder reply returned, no two
\* requests hold the same handle, and under every interleaving the content
\* of a request's message and the delays and edits it issues are what the
\* request alone determines (its own log, address and payload).
\* ------------------------------------------------------------------------
C11_RequestsIndependent ==
    \A r \in Active :
        /\ \A k \in 1..Len(ops[r]) :
              ops[r][k].op = "edit" =>
                  /\ ops[r][k].h = initial_message[r]
                  /\ ops[r][k].h = ops[r][1].h
                  /\ ops[r][1].site = "placeholder"
        /\ \A q \in Active \ { r } :
              initial_message[r] > 0 => initial_message[q] # initial_message[r]
        /\ initial_message[r] > 0 =>
              messages[initial_message[r]] = LastAccepted(r, Len(ops[r]))
        /\ (Fetched(r) /\ Fatal(r) = {}) =>
              /\ IsPrefix(SansAll(RevealLog(r)), ExpectedReveal(r))
              /\ pc[r] = "done" => SansAll(RevealLog(r)) = ExpectedReveal(r)

\* both requests ran to their end, the one that created its message
\* second finishing with its verdict, the other with its one step
C11_Witness ==
    /\ pc[1] = "done" /\ pc[2] = "done"
    /\ initial_message[1] = 2 /\ initial_message[2] = 1
    /\ messages[2].verdict
    /\ messages[1].panels = << "bundles" >>

\* ------------------------------------------------------------------------
\* C12.  For every payload, an empty or absent analysis mapping included,
\* format_analysis_message appends the in-progress line and the progress
\* bar if and only if the reveal index is below the catalog length and
\* show_complete is false.
\* ------------------------------------------------------------------------
C12_ProgressIffBelowLength ==
    Composed1 =>
        (c_out.progress # <<>>
            <=> (c_in.current_step < NumSteps /\ ~c_in.show_complete))

\* the same, for the payloads whose analysis mapping is not empty
C12_ProgressIffBelowLengthNonEmpty ==
    (Composed1 /\ Truthy(c_in.analysis)) =>
        (c_out.progress # <<>>
            <=> (c_in.current_step < NumSteps /\ ~c_in.show_complete))

\* ------------------------------------------------------------------------
\* The two leaf formatters, character by character
\* ------------------------------------------------------------------------

MILLION == 1000000

THOUSAND == 1000

REASON_MAX == 70

REASON_KEEP == 67

WRAP_WIDTH == 27

\* bounds of the formatter runs
CapSpread == 120

MaxWords == 3

DigitChars == << "0", "1", "2", "3", "4", "5", "6", "7", "8", "9" >>

RECURSIVE Digits(_)
\* decimal numeral of a natural number
Digits(n) ==
    IF n < 10 THEN << DigitChars[n + 1] >>
    ELSE Digits(n \div 10) \o << DigitChars[(n % 10) + 1] >>

RECURSIVE Pow10(_)
Pow10(d) == IF d = 0 THEN 1 ELSE 10 * Pow10(d - 1)

RECURSIVE Padded(_, _)
\* the numeral of n < 10^d on exactly d digits
Padded(n, d) ==
    IF d = 0 THEN <<>>
    ELSE Padded(n \div 10, d - 1) \o << DigitChars[(n % 10) + 1] >>

\* the quotient num/unit is halfway between two numerals of d decimals;
\* the digit printed then depends on the binary expansion of the quotient
IsTie(num, unit, d) == 2 * ((num * Pow10(d)) % unit) = unit

\* f"{num / unit:.{d}f}" for naturals: the nearest numeral of d decimals
\* (half to even when the quotient is exactly halfway)
Fixed(num, unit, d) ==
    LET scaled == num * Pow10(d)
        q      == scaled \div unit
        rem    == scaled % unit
        n      == IF 2 * rem > unit \/ (2 * rem = unit /\ q % 2 = 1)
                  THEN q + 1 ELSE q
    IN  Digits(n \div Pow10(d))
            \o (IF d = 0 THEN <<>> ELSE << "." >> \o Padded(n % Pow10(d), d))

IsMillions_Strict(value) == value.num > MILLION

IsMillions(value) == value.num >= MILLION

IsThousands(value) == value.num >= THOUSAND

format_market_cap(value) ==
    IF value.none \/ value.num = 0 THEN << "$", "0" >>
    ELSE IF IsMillions(value)
        THEN << "$" >> \o Fixed(value.num, MILLION, 2) \o << "M" >>
    ELSE IF IsThousands(value)
        THEN << "$" >> \o Fixed(value.num, THOUSAND, 1) \o << "K" >>
    ELSE << "$" >> \o Fixed(value.num, 1, 0)

\* reason[:67] + "..." when the reason is longer than 70
truncate_reason(reason) ==
    IF Len(reason) > REASON_MAX
    THEN SubSeq(reason, 1, REASON_KEEP) \o << ".", ".", "." >>
    ELSE reason

RECURSIVE split(_)
\* str.split(): the maximal runs of non-whitespace characters
split(s) ==
    LET t == lstrip(s)
        n == IF \E k \in 1..Len(t) : t[k] \in Whitespace
             THEN (CHOOSE k \in 1..Len(t) :
                      /\ t[k] \in Whitespace
                      /\ \A j \in 1..(k - 1) : t[j] \notin Whitespace) - 1
             ELSE Len(t)
    IN  IF t = <<>> THEN <<>>
        ELSE << SubSeq(t, 1, n) >> \o split(SubSeq(t, n + 1, Len(t)))

RECURSIVE wrap_loop(_, _, _)
\* the for loop over the words, then the flush of the last line
wrap_loop(words, lines, current_line) ==
    IF words = <<>>
    THEN IF current_line # <<>> THEN Append(lines, strip(current_line))
         ELSE lines
    ELSE LET word == Head(words) IN
         IF Len(current_line \o word) <= WRAP_WIDTH
         THEN wrap_loop(Tail(words), lines, current_line \o word \o << " " >>)
         ELSE wrap_loop(Tail(words),
                        IF current_line # <<>>
                        THEN Append(lines, strip(current_line)) ELSE lines,
                        word \o << " " >>)

\* the reason as the panel shows it: cut, then wrapped into lines
format_reason(reason) ==
    LET cut == truncate_reason(reason)
    IN  [reason |-> cut, lines |-> wrap_loop(split(cut), <<>>, <<>>)]

\* ------------------------------------------------------------------------
\* The formatter runs: one leaf formatter applied once to one argument;
\* no request is in flight
\* ------------------------------------------------------------------------

\* amounts around each threshold, and the amounts the documentation shows
CapValues ==
    { v \in (0..CapSpread)
            \cup ((THOUSAND - CapSpread)..(THOUSAND + CapSpread))
            \cup ((MILLION - CapSpread)..(MILLION + CapSpread))
            \cup { 500, 2500000 } :
        /\ v >= MILLION => ~IsTie(v, MILLION, 2)
        /\ (v >= THOUSAND /\ v < MILLION) => ~IsTie(v, THOUSAND, 1) }

WordLens ==
    { 1, 9, WRAP_WIDTH - 1, WRAP_WIDTH, WRAP_WIDTH + 1, 45, REASON_MAX + 1 }

RECURSIVE JoinWords(_)
\* words of the given lengths, separated by single spaces
JoinWords(lens) ==
    IF lens = <<>> THEN <<>>
    ELSE IF Len(lens) = 1 THEN Rep(lens[1], "a")
    ELSE Rep(lens[1], "a") \o << " " >> \o JoinWords(Tail(lens))

Reasons ==
    { JoinWords(lens) : lens \in UNION { [1..n -> WordLens] : n \in 0..MaxWords } }

FormatInputs ==
    { Call("format_market_cap", Value(TRUE, 0), <<>>) }
        \cup { Call("format_market_cap", Value(FALSE, v), <<>>) : v \in CapValues }
        \cup { Call("format_analysis_step", Value(TRUE, 0), reason) :
                 reason \in Reasons }

InitFormat ==
    /\ pc = [r \in Req |-> "unused"]
    /\ text_in = [r \in Req |-> <<>>]
    /\ token_address = [r \in Req |-> <<>>]
    /\ analysis = [r \in Req |-> EmptyAnalysis]
    /\ error_msg = [r \in Req |-> ""]
    /\ i = [r \in Req |-> 0]
    /\ initial_message = [r \in Req |-> 0]
    /\ exc = [r \in Req |-> NoExc]
    /\ raised = [r \in Req |-> FALSE]
    /\ spurious = [r \in Req |-> 0]
    /\ ops = [r \in Req |-> <<>>]
    /\ messages = <<>>
    /\ c_in = [token_address |-> <<>>, analysis |-> EmptyAnalysis,
               current_step |-> 0, show_complete |-> FALSE]
    /\ c_out = NoText
    /\ f_in \in FormatInputs
    /\ f_out = <<>>
    /\ f_done = FALSE

FormatMarketCap ==
    /\ ~f_done
    /\ f_in.fn = "format_market_cap"
    /\ f_out' = format_market_cap(f_in.value)
    /\ f_done' = TRUE
    /\ UNCHANGED << f_in, c_in, c_out >>
    /\ UNCHANGED hvars

FormatAnalysisStep ==
    /\ ~f_done
    /\ f_in.fn = "format_analysis_step"
    /\ f_out' = format_reason(f_in.reason)
    /\ f_done' = TRUE
    /\ UNCHANGED << f_in, c_in, c_out >>
    /\ UNCHANGED hvars

NextFormat == FormatMarketCap \/ FormatAnalysisStep

SpecFormat == InitFormat /\ [][NextFormat]_vars

\* the reason formatter has returned
Wrapped == f_done /\ f_in.fn = "format_analysis_step"

\* the amount formatter has returned
Priced == f_done /\ f_in.fn = "format_market_cap"

\* C13: a reason is cut to at most 70 characters before wrapping, and no
\* wrapped line of a panel is longer than 27 characters.
C13_ReasonCutAndWrapped ==
    Wrapped =>
        /\ Len(f_out.reason) <= REASON_MAX
        /\ \A k \in 1..Len(f_out.lines) : Len(f_out.lines[k]) <= WRAP_WIDTH

\* the cut alone: at most 70 characters go into the wrapping
C13_ReasonCut == Wrapped => Len(f_out.reason) <= REASON_MAX

\* the wrapping, for reasons whose every word fits a line
C13_WrappedWhenWordsFit ==
    (Wrapped /\ \A k \in 1..Len(split(f_out.reason)) :
                    Len(split(f_out.reason)[k]) <= WRAP_WIDTH)
        => \A k \in 1..Len(f_out.lines) : Len(f_out.lines[k]) <= WRAP_WIDTH

\* a single word of 28 characters comes back as one line of 28
C13_LongWordKeptWhole ==
    (Wrapped /\ f_in.reason = Rep(WRAP_WIDTH + 1, "a"))
        => f_out.lines = << Rep(WRAP_WIDTH + 1, "a") >>

\* the characters of a bare integer
IsNumeral(s) ==
    /\ s # <<>>
    /\ \A k \in 1..Len(s) : \E d \in 1..10 : s[k] = DigitChars[d]

\* a numeral with exactly d decimals
IsDecimal(s, d) ==
    /\ Len(s) > d + 1
    /\ IsNumeral(SubSeq(s, 1, Len(s) - d - 1))
    /\ s[Len(s) - d] = "."
    /\ IsNumeral(SubSeq(s, Len(s) - d + 1, Len(s)))

\* C14: for a non-negative integer amount the output is "$0" when the amount
\* is 0 or absent, carries the suffix M exactly when the amount is at least
\* 1,000,000, the suffix K exactly when it is at least 1,000 and below
\* 1,000,000, and is the bare integer otherwise.
C14_SuffixByRange ==
    Priced =>
        LET v    == f_in.value
            body == Tail(f_out)
            last == f_out[Len(f_out)]
        IN  /\ Head(f_out) = "$"
            /\ (v.none \/ v.num = 0) => f_out = << "$", "0" >>
            /\ ~v.none =>
                /\ last = "M" <=> v.num >= MILLION
                /\ last = "K" <=> (v.num >= THOUSAND /\ v.num < MILLION)
                /\ v.num >= MILLION => IsDecimal(SubSeq(body, 1, Len(body) - 1), 2)
                /\ (v.num >= THOUSAND /\ v.num < MILLION)
                       => IsDecimal(SubSeq(body, 1, Len(body) - 1), 1)
                /\ v.num < THOUSAND => body = Digits(v.num)

C14_Witness ==
    /\ Priced
    /\ ~f_in.value.none
    /\ f_in.value.num = MILLION
    /\ f_out = << "$", "1", ".", "0", "0", "M" >>

\* the amounts of the documented examples
C14_Examples ==
    Priced =>
        /\ (~f_in.value.none /\ f_in.value.num = 2500000)
               => f_out = << "$", "2", ".", "5", "0", "M" >>
        /\ (~f_in.value.none /\ f_in.value.num = 500)
               => f_out = << "$", "5", "0", "0" >>
        /\ (~f_in.value.none /\ f_in.value.num = MILLION - 1)
               => f_out = << "$", "1", "0", "0", "0", ".", "0", "K" >>

\* ------------------------------------------------------------------------
\* The sequencer, transition by transition
\* ------------------------------------------------------------------------

\* the request got past the address check and handed something over
Accepted(r) == ops[r] # <<>> /\ ops[r][1].site # "invalid"

\* every edit of the request targets the handle its create returned
EditsTargetCreated(r) ==
    \A k \in 1..Len(ops[r]) :
        ops[r][k].op = "edit"
            => /\ ops[r][1].op = "reply"
               /\ ops[r][1].res = "ok"
               /\ ops[r][k].h = ops[r][1].h

\* C15 (as stated): the message composed at reveal index 0 is delivered by
\* the create-message operation, which is the request's first transport
\* operation, and every later edit targets the handle that create returned.
C15_OverviewCreated ==
    \A r \in Active :
        Accepted(r) =>
            /\ ops[r][1].op = "reply"
            /\ ops[r][1].text.kind = "analysis"
            /\ \A k \in 1..Len(ops[r]) :
                   ops[r][k].site = "index0" => (k = 1 /\ ops[r][k].op = "reply")
            /\ EditsTargetCreated(r)

\* C15 (amended): the request's first transport operation is the create of
\* the "connecting" placeholder, and the request creates nothing else; every
\* later edit targets the handle that create returned; the message composed
\* at reveal index 0 is delivered by the first edit of that handle, right
\* after a successful fetch.
C15_PlaceholderCreatedOverviewEdited ==
    \A r \in Active :
        Accepted(r) =>
            /\ ops[r][1].op = "reply"
            /\ ops[r][1].text = Plain("connecting", token_address[r], "")
            /\ \A k \in 2..Len(ops[r]) : ops[r][k].op # "reply"
            /\ EditsTargetCreated(r)
            /\ \A k \in 1..Len(ops[r]) :
                   ops[r][k].site = "index0"
                       => /\ k = 3
                          /\ Fetched(r)
                          /\ ops[r][k].op = "edit"
                          /\ ops[r][k].text =
                                 format_analysis_message(token_address[r], analysis[r],
                                                         0, NumSteps, FALSE)
            /\ (Fetched(r) /\ Len(ops[r]) >= 3) => ops[r][3].site = "index0"

C15_Witness ==
    \E r \in Active :
        /\ Len(ops[r]) >= 4
        /\ ops[r][1].op = "reply"
        /\ ops[r][1].text.kind = "connecting"
        /\ ops[r][3].site = "index0"
        /\ ops[r][3].res = "ok"
        /\ messages[ops[r][1].h].kind = "analysis"

\* positions of the inter-step delays in the request's log
StepSleeps(r) ==
    { k \in 1..Len(ops[r]) : ops[r][k].op = "sleep" /\ ops[r][k].site = "step" }

\* positions of the step edits
StepEdits(r) ==
    { k \in 1..Len(ops[r]) : ops[r][k].op = "edit" /\ ops[r][k].site = "step" }

\* the tick an inter-step delay at position k opens: 1..N
TickAt(r, k) == TicksBefore(r, k) + 1

\* C16: for i = 1..N in increasing order, after one inter-step delay an edit
\* composed with reveal index i is issued iff the payload holds a result for
\* catalog step i-1; a tick whose step is absent issues no edit, and each
\* edit has completed, or failed benignly, before the next delay starts.
C16_SteppingProtocol ==
    \A r \in Active :
        /\ \A k \in StepSleeps(r) :
               LET t       == TickAt(r, k)
                   present == ANALYSIS_STEPS[t] \in analysis[r].steps
               IN  /\ t \in 1..NumSteps
                   /\ Fetched(r)
                   /\ ops[r][k].secs = STEP_DELAY
                   /\ k = Len(ops[r]) => (pc[r] = "step_edit" <=> present)
                   /\ k < Len(ops[r]) =>
                          /\ present <=> (k + 1) \in StepEdits(r)
                          /\ ~present => ops[r][k + 1].op = "sleep"
        /\ \A k \in StepEdits(r) :
               /\ (k - 1) \in StepSleeps(r)
               /\ ops[r][k].step = TickAt(r, k - 1)
               /\ ~ops[r][k].complete
               /\ ops[r][k].text =
                      format_analysis_message(token_address[r], analysis[r],
                                              TickAt(r, k - 1), NumSteps, FALSE)
        /\ \A k \in 2..Len(ops[r]) :
               (ops[r][k].op = "sleep" /\ ops[r][k - 1].op = "edit")
                   => ops[r][k - 1].res \in { "ok", "not_modified" }
        /\ pc[r] \in { "pred_sleep", "verdict_sleep" }
               => Cardinality(StepSleeps(r)) = NumSteps
        /\ (pc[r] = "done" /\ Fetched(r) /\ Fatal(r) = {})
               => Cardinality(StepSleeps(r)) = NumSteps

C16_Witness ==
    \E r \in Active :
        /\ pc[r] = "done"
        /\ Cardinality(StepSleeps(r)) = NumSteps
        /\ \E k \in StepSleeps(r) : (k + 1) \in StepEdits(r) /\ (k + 2) \in StepSleeps(r)
        /\ \E k \in StepSleeps(r) : (k + 1) \in StepSleeps(r)

\* positions of the operations of a stage
StageOps(r, site) == { k \in 1..Len(ops[r]) : ops[r][k].site = site }

\* positions of the edits of a stage
StageEdits(r, site) == { k \in StageOps(r, site) : ops[r][k].op = "edit" }

\* all N ticks of the step loop lie before position k
LoopOverBefore(r, k) ==
    /\ TicksBefore(r, k) = NumSteps
    /\ \A j \in StepSleeps(r) \cup StepEdits(r) : j < k

\* C17: the predictions edit is issued only if a predictions block exists
\* and only after all N step ticks; the verdict edit is issued only if a
\* verdict exists and only after the predictions stage; no delivered text
\* holds the verdict panel without the predictions panel when the payload
\* has a predictions block.
C17_StageOrdering ==
    \A r \in Active :
        /\ \A k \in StageOps(r, "predictions") :
               /\ analysis[r].predictions
               /\ LoopOverBefore(r, k)
               /\ \A j \in StageOps(r, "verdict") : k < j
        /\ \A k \in StageEdits(r, "predictions") :
               /\ ops[r][k - 1] = SleepOf("predictions", STEP_DELAY)
               /\ ops[r][k].step = NumSteps
               /\ ~ops[r][k].complete
        /\ \A k \in StageOps(r, "verdict") :
               /\ analysis[r].probability
               /\ LoopOverBefore(r, k)
               /\ analysis[r].predictions
                      => \E j \in StageEdits(r, "predictions") :
                             j < k /\ ops[r][j].res \in { "ok", "not_modified" }
        /\ \A k \in StageEdits(r, "verdict") :
               /\ ops[r][k - 1] = SleepOf("verdict", PREDICTION_DELAY)
               /\ ops[r][k].step = NumSteps
               /\ ops[r][k].complete
        /\ \A k \in Handed(r) :
               /\ ops[r][k].text.verdict => k \in StageEdits(r, "verdict")
               /\ ops[r][k].text.predictions => LoopOverBefore(r, k + 1)
               /\ (ops[r][k].text.verdict /\ analysis[r].predictions)
                      => ops[r][k].text.predictions
        /\ \A h \in 1..Len(messages) :
               (messages[h].verdict /\ analysis[r].predictions)
                   => messages[h].predictions

C17_Witness ==
    \E r \in Active :
        /\ pc[r] = "done"
        /\ \E j \in StageEdits(r, "predictions") :
               \E k \in StageEdits(r, "verdict") :
                   /\ j < k
                   /\ ops[r][k].res = "ok"
                   /\ ops[r][k].text.verdict
                   /\ ops[r][k].text.predictions
        /\ messages[initial_message[r]].verdict

\* the payload holds the last catalog step and a predictions block
LastStepAndPredictions(r) ==
    /\ Fetched(r)
    /\ ANALYSIS_STEPS[NumSteps] \in analysis[r].steps
    /\ analysis[r].predictions

\* the transport has rejected no edit of the request as unchanged whose
\* text differed from the content
Honest(r) == spurious[r] = 0

\* C18: when the payload holds a result for the last catalog step and a
\* predictions block, the text of the edit issued at tick N already holds
\* the predictions panel, so the predictions-stage edit that follows carries
\* text identical to the message's current content; the predictions stage
\* changes nothing visible and the sequence continues only through the
\* swallowed unchanged-content path.
C18_PredictionsEditRedundant ==
    \A r \in Active :
        LastStepAndPredictions(r) =>
            /\ \A j \in StepEdits(r) :
                   ops[r][j].step = NumSteps =>
                       /\ ops[r][j].text.predictions
                       /\ ops[r][j].text.progress = <<>>
                       /\ ops[r][j].text =
                              format_analysis_message(token_address[r], analysis[r],
                                                      NumSteps, NumSteps, FALSE)
            /\ (pc[r] \in { "pred_sleep", "pred_edit" } /\ Honest(r))
                   => messages[initial_message[r]] =
                          format_analysis_message(token_address[r], analysis[r],
                                                  NumSteps, NumSteps, FALSE)
            /\ \A k \in StageEdits(r, "predictions") :
                   /\ (k - 2) \in StepEdits(r)
                   /\ ops[r][k - 2].step = NumSteps
                   /\ ops[r][k].text = ops[r][k - 2].text
                   /\ (Honest(r) \/ ops[r][k - 2].res = "ok")
                          => /\ ops[r][k].res # "ok"
                             /\ LastAccepted(r, k) = LastAccepted(r, k - 1)
                             /\ Fatal(r) = {} => ops[r][k].res = "not_modified"
                             /\ (k < Len(ops[r]) /\ ops[r][k + 1].site \notin ReportSites)
                                    => ops[r][k].res = "not_modified"

C18_Witness ==
    \E r \in Active :
        /\ LastStepAndPredictions(r)
        /\ Honest(r)
        /\ pc[r] = "done"
        /\ \E k \in StageEdits(r, "predictions") :
               /\ ops[r][k - 2].res = "ok"
               /\ ops[r][k].res = "not_modified"
               /\ k < Len(ops[r])

\* the request is over after a successful fetch and no fatal failure, the
\* transport having rejected as unchanged only text equal to the content
Completed(r) ==
    /\ pc[r] = "done"
    /\ Fetched(r)
    /\ Fatal(r) = {}
    /\ Honest(r)

\* the text the request's message shows
Displayed(r) == messages[initial_message[r]]

\* C19: when a request reaches DONE with a successful fetch and no fatal
\* failure (unchanged rejections being truthful), the displayed text holds
\* a panel for every catalog step present in the payload, the predictions
\* panel if a predictions block exists, and the verdict panel if a verdict
\* exists.
C19_FinalTextComplete ==
    \A r \in Active :
        Completed(r) =>
            /\ Displayed(r).kind = "analysis"
            /\ Displayed(r).addr = display_address(token_address[r])
            /\ \A key \in analysis[r].steps :
                   format_analysis_step(key) \in Range(Displayed(r).panels)
            /\ Len(Displayed(r).panels) = Cardinality(analysis[r].steps)
            /\ analysis[r].predictions => Displayed(r).predictions
            /\ analysis[r].probability => Displayed(r).verdict

C19_Witness ==
    \E r \in Active :
        /\ Completed(r)
        /\ analysis[r].probability
        /\ ~analysis[r].predictions
        /\ analysis[r].steps # {}
        /\ Displayed(r).verdict
        /\ Len(Displayed(r).panels) = Cardinality(analysis[r].steps)

\* C20: for every payload, when a request reaches DONE with a successful
\* fetch and no fatal failure, the text left displayed is a terminal render:
\* it holds neither the in-progress line nor the progress bar.
C20_FinalTextTerminal ==
    \A r \in Active :
        Completed(r) => Displayed(r).progress = <<>>

\* the final text is terminal whenever an edit composed at index N was issued
C20_TerminalWhenIndexNReached ==
    \A r \in Active :
        (Completed(r) /\ \E k \in Composed(r) : ops[r][k].step = NumSteps)
            => Displayed(r).progress = <<>>

\* the last step absent and neither predictions nor verdict: the final text
\* still shows the progress line of the last step that was present
C20_StaleProgress ==
    \A r \in Active :
        (/\ Completed(r)
         /\ Truthy(analysis[r])
         /\ ANALYSIS_STEPS[NumSteps] \notin analysis[r].steps
         /\ ~analysis[r].predictions
         /\ ~analysis[r].probability)
            => /\ Displayed(r).progress # <<>>
               /\ Displayed(r).progress[1] < NumSteps

====
